---- MODULE Spec2Model ----
(***************************************************************************)
(* Grid triangulation of nipy.algorithms.statistics.utils:                 *)
(* complex, cube_with_strides_center, join_complexes, decompose3d,         *)
(* decompose2d, test_EC3 and test_EC2.                                     *)
(*                                                                         *)
(* Python values are modelled as follows.  A tuple or list of ints is a    *)
(* TLA+ sequence.  A dict with keys 1..n is a function on 1..n.  A set is  *)
(* a set.  A value yielded by a generator is tagged, because a generator   *)
(* yields either a bare int or a list: PyInt(n) and PyList(s).             *)
(***************************************************************************)
EXTENDS Integers, Sequences, FiniteSets, TLC

(***************************************************************************)
(* Bounds of the model.                                                    *)
(***************************************************************************)
\* largest axis length of a 3D shape
MaxAxis == 3
\* largest axis length of a 2D shape
MaxAxis2 == 4
\* largest number of axes of a shape handed to a decomposer
MaxRank == 4
\* largest requested simplex dimension
MaxDim == 5
\* the smallest requested simplex dimension is -MaxNegDim
MaxNegDim == 1

(***************************************************************************)
(* Small helpers on sequences and sets of ints.                            *)
(***************************************************************************)
Range(s) == {s[n] : n \in DOMAIN s}

RECURSIVE Prod(_)
\* np.product(shape)
Prod(s) == IF s = <<>> THEN 1 ELSE Head(s) * Prod(Tail(s))

SetMax(S) == CHOOSE x \in S : \A y \in S : y <= x

\* lexicographic order on int tuples of the same length (Python tuple order)
LexLess(s, t) ==
    \E n \in DOMAIN s :
        /\ n \in DOMAIN t
        /\ s[n] < t[n]
        /\ \A m \in 1..(n-1) : s[m] = t[m]

\* list.sort() of a list of ints, by insertion
RECURSIVE Insert(_, _)
Insert(x, s) ==
    IF s = <<>> THEN <<x>>
    ELSE IF x <= Head(s) THEN <<x>> \o s
    ELSE <<Head(s)>> \o Insert(x, Tail(s))

\* Sorted with the sort left out
SortedNot(s) == s

RECURSIVE Sorted(_)
Sorted(s) == IF s = <<>> THEN <<>> ELSE Insert(Head(s), Sorted(Tail(s)))

\* the elements of s at the positions I, in increasing position order
RECURSIVE Pick(_, _, _)
Pick(s, I, n) ==
    IF n > Len(s) THEN <<>>
    ELSE IF n \in I THEN <<s[n]>> \o Pick(s, I, n + 1)
    ELSE Pick(s, I, n + 1)

\* Combinations taking the positions in every order
CombinationsPermuted(s, k) ==
    {[n \in 1..k |-> s[f[n]]] :
        f \in {g \in [1..k -> 1..Len(s)] :
                 \A i, j \in 1..k : i # j => g[i] # g[j]}}

\* itertools.combinations(s, k), as the set of the tuples it produces
Combinations(s, k) ==
    {Pick(s, I, 1) : I \in {J \in SUBSET (1..Len(s)) : Cardinality(J) = k}}

(***************************************************************************)
(* complex(maximal): all faces of a list of maximal simplices.             *)
(* faces[1] is a set of bare ints, faces[k] for k > 1 a set of tuples.     *)
(***************************************************************************)
\* the default argument of complex
DefaultMaximal ==
    << <<0, 3, 2, 7>>, <<0, 6, 2, 7>>, <<0, 7, 5, 4>>,
       <<0, 7, 5, 1>>, <<0, 7, 4, 6>>, <<0, 3, 1, 7>> >>

\* Maximal3 with a slip in the last tetrahedron
Maximal3Typo ==
    << <<0, 3, 2, 7>>, <<0, 6, 2, 7>>, <<0, 7, 5, 4>>,
       <<0, 7, 5, 1>>, <<0, 7, 4, 6>>, <<0, 3, 1, 6>> >>

\* the literals of cube_with_strides_center for d == 3, 2, 1
Maximal3 ==
    << <<0, 3, 2, 7>>, <<0, 6, 2, 7>>, <<0, 7, 5, 4>>,
       <<0, 7, 5, 1>>, <<0, 7, 4, 6>>, <<0, 3, 1, 7>> >>

Maximal2 == << <<0, 1, 3>>, <<0, 2, 3>> >>

Maximal1 == << <<0, 1>> >>

\* FacesOf without the vertices
FacesOfNoVertices(simplex, k) ==
    IF k > Len(simplex) \/ k = 1 THEN {}
    ELSE Combinations(Sorted(simplex), k)

FacesOf(simplex, k) ==
    IF k > Len(simplex) THEN {}
    ELSE IF k = 1 THEN {v[1] : v \in Combinations(Sorted(simplex), 1)}
    ELSE Combinations(Sorted(simplex), k)

Complex(maximal) ==
    [k \in 1..SetMax({Len(maximal[n]) : n \in DOMAIN maximal}) |->
        UNION {FacesOf(maximal[n], k) : n \in DOMAIN maximal}]

(***************************************************************************)
(* cube_with_strides_center(center, strides)                               *)
(***************************************************************************)
\* CubeRaises rejecting only strides that are too short
CubeRaisesShortOnly(center, strides) ==
    \/ ~(0 < Len(center) /\ Len(center) <= 3)
    \/ Len(strides) < Len(center)

\* the two ValueError guards
CubeRaises(center, strides) ==
    \/ ~(0 < Len(center) /\ Len(center) <= 3)
    \/ Len(strides) # Len(center)

\* vertices, in the order the nested loops append them (axis 0 fastest)
CubeVertices(center, strides) ==
    IF Len(center) = 3 THEN
        [n \in 1..8 |->
            LET i == (n - 1) % 2
                j == ((n - 1) \div 2) % 2
                k == (n - 1) \div 4
            IN (center[1] + i) * strides[1] + (center[2] + j) * strides[2]
                 + (center[3] + k) * strides[3]]
    ELSE IF Len(center) = 2 THEN
        [n \in 1..4 |->
            LET i == (n - 1) % 2
                j == (n - 1) \div 2
            IN (center[1] + i) * strides[1] + (center[2] + j) * strides[2]]
    ELSE <<center[1], center[1] + strides[1]>>

CubeMaximal(d) ==
    IF d = 3 THEN Maximal3 ELSE IF d = 2 THEN Maximal2 ELSE Maximal1

CubeWithStridesCenter(center, strides) ==
    LET vertices == CubeVertices(center, strides)
        tmpl == CubeMaximal(Len(center))
    IN Complex([m \in DOMAIN tmpl |->
                  [p \in DOMAIN tmpl[m] |-> vertices[tmpl[m][p] + 1]]])

(***************************************************************************)
(* join_complexes: the argument list is a sequence of complexes            *)
(***************************************************************************)
\* JoinComplexes keeping only the dimensions of the first complex
JoinComplexesFirstKeys(complexes) ==
    [k \in 1..Len(complexes[1]) |->
        UNION {IF k \in DOMAIN complexes[n] THEN complexes[n][k] ELSE {}
                 : n \in DOMAIN complexes}]

JoinComplexes(complexes) ==
    [k \in 1..SetMax({Len(complexes[n]) : n \in DOMAIN complexes}) |->
        UNION {IF k \in DOMAIN complexes[n] THEN complexes[n][k] ELSE {}
                 : n \in DOMAIN complexes}]

(***************************************************************************)
(* np.empty(shape, np.bool_).strides: C-order strides, itemsize 1.  numpy  *)
(* counts an axis of length 0 as length 1 when it fills the strides.       *)
(***************************************************************************)
RECURSIVE StrideFrom(_, _)
StrideFrom(shape, n) ==
    IF n > Len(shape) THEN 1
    ELSE (IF shape[n] = 0 THEN 1 ELSE shape[n]) * StrideFrom(shape, n + 1)

Strides(shape) == [n \in DOMAIN shape |-> StrideFrom(shape, n + 1)]

(***************************************************************************)
(* The templates `unique` of decompose3d and decompose2d.                  *)
(***************************************************************************)
\* Offsets3 without the neighbour one step back on the last axis
Offsets3Short ==
    << <<0, -1, 0>>, <<0, -1, -1>>, <<-1, 0, 0>>,
       <<-1, 0, -1>>, <<-1, -1, 0>>, <<-1, -1, -1>> >>

Offsets3 ==
    << <<0, 0, -1>>, <<0, -1, 0>>, <<0, -1, -1>>, <<-1, 0, 0>>,
       <<-1, 0, -1>>, <<-1, -1, 0>>, <<-1, -1, -1>> >>

\* Offsets2 without the neighbour one step back on the first axis
Offsets2Short == << <<0, -1>>, <<-1, -1>> >>

Offsets2 == << <<0, -1>>, <<-1, 0>>, <<-1, -1>> >>

\* c[k].difference(union[k]) for k in 1..n
Difference(c, union, n) == [k \in 1..n |-> c[k] \ union[k]]

\* decompose3d, interior voxels
Unique3Interior(strides) ==
    Difference(CubeWithStridesCenter(<<0, 0, 0>>, strides),
               JoinComplexes([n \in DOMAIN Offsets3 |->
                                CubeWithStridesCenter(Offsets3[n], strides)]),
               4)

\* Unique3Slab with the difference left out
Unique3SlabNoDiff(strides2) ==
    [k \in 1..3 |-> CubeWithStridesCenter(<<0, 0>>, strides2)[k]]

\* decompose3d, two-dimensional faces
Unique3Slab(strides2) ==
    Difference(CubeWithStridesCenter(<<0, 0>>, strides2),
               JoinComplexes([n \in DOMAIN Offsets2 |->
                                CubeWithStridesCenter(Offsets2[n], strides2)]),
               3)

\* decompose3d, one-dimensional faces
Unique3Edge(stride) ==
    Difference(CubeWithStridesCenter(<<0>>, <<stride>>),
               CubeWithStridesCenter(<<-1>>, <<stride>>),
               2)

\* Unique2Interior with the difference left out
Unique2InteriorNoDiff(strides) ==
    [k \in 1..3 |-> CubeWithStridesCenter(<<0, 0>>, strides)[k]]

\* decompose2d, interior pixels
Unique2Interior(strides) ==
    Difference(CubeWithStridesCenter(<<0, 0>>, strides),
               JoinComplexes([n \in DOMAIN Offsets2 |->
                                CubeWithStridesCenter(Offsets2[n], strides)]),
               3)

\* decompose2d, one-dimensional faces
Unique2Edge(stride) ==
    Difference(CubeWithStridesCenter(<<0>>, <<stride>>),
               CubeWithStridesCenter(<<-1>>, <<stride>>),
               2)

(***************************************************************************)
(* The passes of the two generators, in the order the code runs them.      *)
(* Each pass loops over range(sh[a] - 1) on its axes and translates the    *)
(* faces of its template by the index of the position under st.            *)
(***************************************************************************)
\* Strata3 with the second slab on the axes of the first
Strata3SlabSlip(shape, strides) ==
    << [kind |-> "interior", st |-> strides, sh |-> shape],
       [kind |-> "slab", st |-> <<strides[1], strides[2]>>,
                         sh |-> <<shape[1], shape[2]>>],
       [kind |-> "slab", st |-> <<strides[1], strides[2]>>,
                         sh |-> <<shape[1], shape[3]>>],
       [kind |-> "slab", st |-> <<strides[2], strides[3]>>,
                         sh |-> <<shape[2], shape[3]>>],
       [kind |-> "edge", st |-> <<strides[1]>>, sh |-> <<shape[1]>>],
       [kind |-> "edge", st |-> <<strides[2]>>, sh |-> <<shape[2]>>],
       [kind |-> "edge", st |-> <<strides[3]>>, sh |-> <<shape[3]>>] >>

Strata3(shape, strides) ==
    << [kind |-> "interior", st |-> strides, sh |-> shape],
       [kind |-> "slab", st |-> <<strides[1], strides[2]>>,
                         sh |-> <<shape[1], shape[2]>>],
       [kind |-> "slab", st |-> <<strides[1], strides[3]>>,
                         sh |-> <<shape[1], shape[3]>>],
       [kind |-> "slab", st |-> <<strides[2], strides[3]>>,
                         sh |-> <<shape[2], shape[3]>>],
       [kind |-> "edge", st |-> <<strides[1]>>, sh |-> <<shape[1]>>],
       [kind |-> "edge", st |-> <<strides[2]>>, sh |-> <<shape[2]>>],
       [kind |-> "edge", st |-> <<strides[3]>>, sh |-> <<shape[3]>>] >>

Strata2(shape, strides) ==
    << [kind |-> "interior", st |-> strides, sh |-> shape],
       [kind |-> "edge", st |-> <<strides[1]>>, sh |-> <<shape[1]>>],
       [kind |-> "edge", st |-> <<strides[2]>>, sh |-> <<shape[2]>>] >>

Strata(fn, shape, strides) ==
    IF fn = "decompose3d" THEN Strata3(shape, strides)
    ELSE Strata2(shape, strides)

UniqueOf(fn, stratum) ==
    IF fn = "decompose3d" THEN
        IF stratum.kind = "interior" THEN Unique3Interior(stratum.st)
        ELSE IF stratum.kind = "slab" THEN Unique3Slab(stratum.st)
        ELSE Unique3Edge(stratum.st[1])
    ELSE
        IF stratum.kind = "interior" THEN Unique2Interior(stratum.st)
        ELSE Unique2Edge(stratum.st[1])

\* FirstPos entering the loops of an axis of length 1
FirstPosInclusive(sh) ==
    IF \A a \in DOMAIN sh : sh[a] - 1 >= 0 THEN [a \in DOMAIN sh |-> 0]
    ELSE <<>>

\* the first position of the nested range(sh[a] - 1) loops, <<>> if none
FirstPos(sh) ==
    IF \A a \in DOMAIN sh : sh[a] - 1 > 0 THEN [a \in DOMAIN sh |-> 0]
    ELSE <<>>

\* NextPosAt with the first axis innermost
RECURSIVE NextPosAtFirstAxis(_, _, _)
NextPosAtFirstAxis(pos, sh, n) ==
    IF n = 0 THEN <<>>
    ELSE LET a == Len(pos) + 1 - n
         IN IF pos[a] + 1 < sh[a] - 1
            THEN [m \in DOMAIN pos |->
                    IF m > a THEN pos[m] ELSE IF m = a THEN pos[a] + 1 ELSE 0]
            ELSE NextPosAtFirstAxis(pos, sh, n - 1)

\* the position after pos in the nested loops (last axis innermost)
RECURSIVE NextPosAt(_, _, _)
NextPosAt(pos, sh, n) ==
    IF n = 0 THEN <<>>
    ELSE IF pos[n] + 1 < sh[n] - 1
         THEN [m \in DOMAIN pos |->
                 IF m < n THEN pos[m] ELSE IF m = n THEN pos[n] + 1 ELSE 0]
         ELSE NextPosAt(pos, sh, n - 1)

NextPos(pos, sh) == NextPosAt(pos, sh, Len(pos))

\* index = i*strides[0] + j*strides[1] + k*strides[2]
RECURSIVE IndexFrom(_, _, _)
IndexFrom(pos, st, n) ==
    IF n > Len(pos) THEN 0 ELSE pos[n] * st[n] + IndexFrom(pos, st, n + 1)

Index(pos, st) == IndexFrom(pos, st, 1)

PyInt(n) == [t |-> "int", v |-> <<n>>]

PyList(s) == [t |-> "list", v |-> s]

\* [index + ii for ii in l]
Translate(l, index) == PyList([n \in DOMAIN l |-> index + l[n]])

(***************************************************************************)
(* `for l in d` walks a set in an order the interpreter fixes.  The model  *)
(* walks it in ascending or in descending tuple order, chosen per run.     *)
(***************************************************************************)
RECURSIVE Iter(_, _)
Iter(S, order) ==
    IF S = {} THEN <<>>
    ELSE LET x == CHOOSE x \in S : \A y \in S \ {x} :
                     IF order = "asc" THEN LexLess(x, y) ELSE LexLess(y, x)
         IN <<x>> \o Iter(S \ {x}, order)

(***************************************************************************)
(* State.                                                                  *)
(*   caller   who pulls from the generator: "consumer" (a plain loop over  *)
(*            the stream), "test_EC3" or "test_EC2"                        *)
(*   cpc      where the caller is: "running", "exhausted" (the consumer    *)
(*            saw StopIteration), "returned" (test_EC* returned),          *)
(*            "raised" (an exception reached the caller)                   *)
(*   fn, shape, dim   the generator function and its arguments             *)
(*   order    the order in which this run walks a set                      *)
(*   pc       where the generator frame is suspended: "start" (created,    *)
(*            body not yet run), "interior", "slab", "edge" (at the yield  *)
(*            of that pass), "vertex" (at the yield of the dim == 1        *)
(*            loop), "done" (returned), "raised"                           *)
(*   stratum  number of the pass the frame is in (see Strata), 0 outside   *)
(*   pos      loop variables (i, j, k), (i, j) or (i,) of the pass         *)
(*   d        the template unique[dim] of the pass                         *)
(*   rest     faces of d the loop `for l in d` has not reached yet         *)
(*   out      the values the caller received from the current generator    *)
(*   loop     test_EC*: number of the for loop being run, 0 otherwise      *)
(*   ts, fs, es, vs, ec   test_EC*: the counters                           *)
(*   prev     test_EC*: what the previous call with this shape returned,   *)
(*            <<>> when there was none                                     *)
(*   other    a second generator object of the same function and           *)
(*            arguments, pulled by another consumer: its frame, how many   *)
(*            elements it gave, the last of them, and whether its consumer *)
(*            still pulls                                                  *)
(*   templates, todo, held, bag   workers that share the passes: the       *)
(*            template of each pass for dim, computed once and only read,  *)
(*            the positions not yet taken, the position each worker is at, *)
(*            and how often each simplex was emitted                       *)
(*   lpc, call, ret   a direct call of complex, join_complexes,            *)
(*            cube_with_strides_center or of the template computation:     *)
(*            "called", "returned" or "raised", the arguments, the result  *)
(*   spc, sshape, saxis, sn, sout   slice_generator: where its frame is,   *)
(*            data.shape, axis, the loop variable and the index tuples it  *)
(*            yielded                                                      *)
(*   gpc, iter, dev, resdev, steps, fits   a GLM Model: where fit is,      *)
(*            self.iter, self.dev, the deviance of self.results, the       *)
(*            number of __next__ calls of the running fit and the number   *)
(*            of fit calls so far                                          *)
(***************************************************************************)
VARIABLES caller, cpc, fn, shape, dim, order, pc, stratum, pos, d, rest, out,
          loop, ts, fs, es, vs, ec,
          prev, other, templates, todo, held, bag, lpc, call, ret,
          spc, sshape, saxis, sn, sout,
          gpc, iter, dev, resdev, steps, fits

decompVars ==
    <<caller, cpc, fn, shape, dim, order, pc, stratum, pos, d, rest, out,
      loop, ts, fs, es, vs, ec>>

libVars == <<lpc, call, ret>>

sliceVars == <<spc, sshape, saxis, sn, sout>>

parVars == <<templates, todo, held, bag>>

glmVars == <<gpc, iter, dev, resdev, steps, fits>>

vars == <<decompVars, prev, other, parVars, libVars, sliceVars, glmVars>>

\* the parts of the state a specification does not use
IdleDecomp ==
    /\ caller = "none"
    /\ cpc = "idle"
    /\ fn = "none"
    /\ shape = <<>>
    /\ dim = 0
    /\ order = "asc"
    /\ pc = "none"
    /\ stratum = 0
    /\ pos = <<>>
    /\ d = {}
    /\ rest = <<>>
    /\ out = <<>>
    /\ loop = 0
    /\ ts = 0
    /\ fs = 0
    /\ es = 0
    /\ vs = 0
    /\ ec = 0

IdleLib == lpc = "idle" /\ call = <<>> /\ ret = <<>>

IdleSlice ==
    spc = "idle" /\ sshape = <<>> /\ saxis = <<>> /\ sn = 0 /\ sout = <<>>

IdleGlm ==
    /\ gpc = "idle" /\ iter = 0 /\ dev = <<>> /\ resdev = <<>>
    /\ steps = 0 /\ fits = 0

IdlePar == templates = <<>> /\ todo = {} /\ held = <<>> /\ bag = <<>>

IdleOther == other = <<>>

IdlePrev == prev = <<>>

genArgs == <<caller, fn, shape, order>>

counters == <<loop, ts, fs, es, vs, ec>>

\* shapes handed to decompose3d / test_EC3 and to decompose2d / test_EC2;
\* shapes with the wrong number of axes have axes of length 2
Shapes3 ==
    [1..3 -> 0..MaxAxis] \cup UNION {[1..r -> {2}] : r \in (1..MaxRank) \ {3}}

Shapes2 ==
    [1..2 -> 0..MaxAxis2] \cup UNION {[1..r -> {2}] : r \in (1..MaxRank) \ {2}}

Dims == (0 - MaxNegDim)..MaxDim

Orders == {"asc", "desc"}

(***************************************************************************)
(* The generator body, from the point where the frame is suspended to the  *)
(* next yield, to its return or to an exception.  The result is the new    *)
(* frame with res = "yield" (and the value val), "stop" or "raise".        *)
(***************************************************************************)
Done == [pc |-> "done", stratum |-> 0, pos |-> <<>>, d |-> {}, rest |-> <<>>,
         res |-> "stop", val |-> PyInt(0)]

Raised == [pc |-> "raised", stratum |-> 0, pos |-> <<>>, d |-> {},
           rest |-> <<>>, res |-> "raise", val |-> PyInt(0)]

\* VertexLoop stopping one vertex early
VertexLoopShort(sh, dm, i) ==
    IF dm = 1 /\ i < Prod(sh) - 1
    THEN [pc |-> "vertex", stratum |-> 0, pos |-> <<i>>, d |-> {},
          rest |-> <<>>, res |-> "yield", val |-> PyInt(i)]
    ELSE [pc |-> "done", stratum |-> 0, pos |-> <<>>, d |-> {}, rest |-> <<>>,
          res |-> "stop", val |-> PyInt(0)]

\* VertexLoop running for every dim <= 1
VertexLoopAnyDim(sh, dm, i) ==
    IF dm <= 1 /\ i < Prod(sh)
    THEN [pc |-> "vertex", stratum |-> 0, pos |-> <<i>>, d |-> {},
          rest |-> <<>>, res |-> "yield", val |-> PyInt(i)]
    ELSE [pc |-> "done", stratum |-> 0, pos |-> <<>>, d |-> {}, rest |-> <<>>,
          res |-> "stop", val |-> PyInt(0)]

\* if dim == 1: for i in range(np.product(shape)): yield i
VertexLoop(sh, dm, i) ==
    IF dm = 1 /\ i < Prod(sh)
    THEN [pc |-> "vertex", stratum |-> 0, pos |-> <<i>>, d |-> {},
          rest |-> <<>>, res |-> "yield", val |-> PyInt(i)]
    ELSE Done

\* the yield of the face at the head of faces, at position p of pass s
YieldFace(S, s, p, tmpl, faces) ==
    [pc |-> S[s].kind, stratum |-> s, pos |-> p, d |-> tmpl,
     rest |-> Tail(faces), res |-> "yield",
     val |-> Translate(Head(faces), Index(p, S[s].st))]

\* control reaches the top of pass s
RECURSIVE EnterStratum(_, _, _, _, _)
EnterStratum(f, sh, dm, ord, s) ==
    LET S == Strata(f, sh, Strides(sh))
    IN IF s > Len(S) THEN VertexLoop(sh, dm, 0)
       ELSE IF dm > 1 /\ FirstPos(S[s].sh) # <<>>
       THEN LET unique == UniqueOf(f, S[s])
            IN IF dm \in DOMAIN unique /\ unique[dm] # {}
               THEN YieldFace(S, s, FirstPos(S[s].sh), unique[dm],
                              Iter(unique[dm], ord))
               ELSE EnterStratum(f, sh, dm, ord, s + 1)
       ELSE EnterStratum(f, sh, dm, ord, s + 1)

\* the first cube_with_strides_center call of the body raises ValueError
\* when the strides of the shape do not have the length of its center
BodyRaises(f, sh) ==
    IF f = "decompose3d" THEN CubeRaises(Offsets3[1], Strides(sh))
    ELSE CubeRaises(Offsets2[1], Strides(sh))

Resume(f, sh, dm, ord, frame) ==
    IF frame.pc = "start" THEN
        IF BodyRaises(f, sh) THEN Raised ELSE EnterStratum(f, sh, dm, ord, 1)
    ELSE IF frame.pc = "vertex" THEN VertexLoop(sh, dm, frame.pos[1] + 1)
    ELSE IF frame.pc \in {"interior", "slab", "edge"} THEN
        LET S == Strata(f, sh, Strides(sh))
            s == frame.stratum
        IN IF frame.rest # <<>>
           THEN YieldFace(S, s, frame.pos, frame.d, frame.rest)
           ELSE IF NextPos(frame.pos, S[s].sh) # <<>>
           THEN YieldFace(S, s, NextPos(frame.pos, S[s].sh), frame.d,
                          Iter(frame.d, ord))
           ELSE EnterStratum(f, sh, dm, ord, s + 1)
    ELSE IF frame.pc = "done" THEN Done
    ELSE Raised

Frame == [pc |-> pc, stratum |-> stratum, pos |-> pos, d |-> d, rest |-> rest]

\* a generator object has just been created: no line of its body has run
FreshFrame ==
    /\ pc' = "start"
    /\ stratum' = 0
    /\ pos' = <<>>
    /\ d' = {}
    /\ rest' = <<>>
    /\ out' = <<>>

SetFrame(r) ==
    /\ pc' = r.pc
    /\ stratum' = r.stratum
    /\ pos' = r.pos
    /\ d' = r.d
    /\ rest' = r.rest
    /\ out' = IF r.res = "yield" THEN Append(out, r.val) ELSE out

(***************************************************************************)
(* Initial states: a caller has created its first generator.               *)
(***************************************************************************)
Init ==
    /\ caller \in {"consumer", "test_EC3", "test_EC2"}
    /\ cpc = "running"
    /\ fn \in {"decompose3d", "decompose2d"}
    /\ caller = "test_EC3" => fn = "decompose3d"
    /\ caller = "test_EC2" => fn = "decompose2d"
    /\ shape \in IF fn = "decompose3d" THEN Shapes3 ELSE Shapes2
    /\ dim \in Dims
    /\ caller = "test_EC3" => dim = 4
    /\ caller = "test_EC2" => dim = 3
    /\ order \in Orders
    /\ pc = "start"
    /\ stratum = 0
    /\ pos = <<>>
    /\ d = {}
    /\ rest = <<>>
    /\ out = <<>>
    /\ loop = IF caller = "consumer" THEN 0 ELSE 1
    /\ ts = 0
    /\ fs = 0
    /\ es = 0
    /\ vs = 0
    /\ ec = 0
    /\ IdlePrev /\ IdleOther /\ IdlePar /\ IdleLib /\ IdleSlice /\ IdleGlm

(***************************************************************************)
(* A consumer pulls the next element: `for x in decompose3d(shape, dim)`.  *)
(***************************************************************************)
ConsumerNext ==
    /\ caller = "consumer"
    /\ cpc = "running"
    /\ LET r == Resume(fn, shape, dim, order, Frame)
       IN /\ SetFrame(r)
          /\ cpc' = IF r.res = "yield" THEN "running"
                    ELSE IF r.res = "stop" THEN "exhausted" ELSE "raised"
    /\ UNCHANGED <<genArgs, dim, counters>>
    /\ UNCHANGED <<prev, other, parVars, libVars, sliceVars, glmVars>>

(***************************************************************************)
(* test_EC3: one iteration of the for loop it is in.  Loop n runs over     *)
(* decompose3d(shape, dim=5-n); when the generator is exhausted the next   *)
(* loop creates its generator, and after the last loop test_EC3 returns.   *)
(***************************************************************************)
EC3Next ==
    /\ caller = "test_EC3"
    /\ cpc = "running"
    /\ LET r == Resume(fn, shape, dim, order, Frame)
       IN IF r.res = "yield" THEN
              /\ SetFrame(r)
              /\ ec' = IF loop \in {1, 3} THEN ec - 1 ELSE ec + 1
              /\ ts' = IF loop = 1 THEN ts + 1 ELSE ts
              /\ fs' = IF loop = 2 THEN fs + 1 ELSE fs
              /\ es' = IF loop = 3 THEN es + 1 ELSE es
              /\ vs' = IF loop = 4 THEN vs + 1 ELSE vs
              /\ UNCHANGED <<genArgs, dim, cpc, loop>>
          ELSE IF r.res = "stop" /\ loop < 4 THEN
              /\ FreshFrame
              /\ loop' = loop + 1
              /\ dim' = dim - 1
              /\ UNCHANGED <<genArgs, cpc, ts, fs, es, vs, ec>>
          ELSE
              /\ SetFrame(r)
              /\ cpc' = IF r.res = "stop" THEN "returned" ELSE "raised"
              /\ UNCHANGED <<genArgs, dim, counters>>
    /\ UNCHANGED <<prev, other, parVars, libVars, sliceVars, glmVars>>

(***************************************************************************)
(* test_EC2: the same over decompose2d(shape, dim=4-n), three loops.       *)
(***************************************************************************)
EC2Next ==
    /\ caller = "test_EC2"
    /\ cpc = "running"
    /\ LET r == Resume(fn, shape, dim, order, Frame)
       IN IF r.res = "yield" THEN
              /\ SetFrame(r)
              /\ ec' = IF loop = 2 THEN ec - 1 ELSE ec + 1
              /\ fs' = IF loop = 1 THEN fs + 1 ELSE fs
              /\ es' = IF loop = 2 THEN es + 1 ELSE es
              /\ vs' = IF loop = 3 THEN vs + 1 ELSE vs
              /\ UNCHANGED <<genArgs, dim, cpc, loop, ts>>
          ELSE IF r.res = "stop" /\ loop < 3 THEN
              /\ FreshFrame
              /\ loop' = loop + 1
              /\ dim' = dim - 1
              /\ UNCHANGED <<genArgs, cpc, ts, fs, es, vs, ec>>
          ELSE
              /\ SetFrame(r)
              /\ cpc' = IF r.res = "stop" THEN "returned" ELSE "raised"
              /\ UNCHANGED <<genArgs, dim, counters>>
    /\ UNCHANGED <<prev, other, parVars, libVars, sliceVars, glmVars>>

Next == ConsumerNext \/ EC3Next \/ EC2Next

Spec == Init /\ [][Next]_vars

(***************************************************************************)
(* Vocabulary of the properties.                                           *)
(***************************************************************************)
\* the shape has the number of axes the generator function expects
RightRank == Len(shape) = IF fn = "decompose3d" THEN 3 ELSE 2

\* every axis has at least n points
AxesAtLeast(n) == \A a \in DOMAIN shape : shape[a] >= n

\* the generator has returned: the caller saw the whole stream
Exhausted == pc = "done"

\* the yielded simplices as unordered vertex sets
OutSets == {Range(out[n].v) : n \in DOMAIN out}

\* the voxel positions of a grid: every axis a runs over 0..shape[a]-2
Voxels(sh) ==
    {x \in [DOMAIN sh -> 0..MaxAxis + MaxAxis2] :
        \A a \in DOMAIN sh : x[a] < sh[a] - 1}

\* the k-vertex faces of the triangulated unit cubes of all voxels
TrueFaces(sh, k) ==
    UNION {LET c == CubeWithStridesCenter(x, Strides(sh))
           IN IF k \in DOMAIN c THEN c[k] ELSE {} : x \in Voxels(sh)}

\* C1: when test_EC3 returns for a shape whose three axes all have length
\* at least 2, the Euler characteristic it accumulated is 1.
EC3IsOne ==
    (caller = "test_EC3" /\ cpc = "returned" /\ AxesAtLeast(2)) => ec = 1

EC3IsOneWitness ==
    /\ caller = "test_EC3"
    /\ cpc = "returned"
    /\ shape = <<3, 3, 3>>
    /\ ts = 48
    /\ ec = 1

\* C2: when test_EC2 returns for a shape whose two axes all have length at
\* least 2, the Euler characteristic it accumulated is 1.
EC2IsOne ==
    (caller = "test_EC2" /\ cpc = "returned" /\ AxesAtLeast(2)) => ec = 1

EC2IsOneWitness ==
    /\ caller = "test_EC2"
    /\ cpc = "returned"
    /\ shape = <<4, 4>>
    /\ fs = 18
    /\ ec = 1

\* the stream of an exhausted generator is the set of dim-vertex faces of
\* the triangulation, each yielded once
ExactlyTheTrueFaces ==
    /\ OutSets = {Range(f) : f \in TrueFaces(shape, dim)}
    /\ Len(out) = Cardinality(TrueFaces(shape, dim))

\* C3 as stated: for every shape of positive axis lengths and every
\* dim > 1, the exhausted stream is exactly the true triangulation's faces.
CompleteEveryShape ==
    (Exhausted /\ RightRank /\ AxesAtLeast(1) /\ dim > 1)
        => ExactlyTheTrueFaces

\* C3 amended: for every shape whose axes all have length at least 2 and
\* every dim > 1, the exhausted stream is exactly the set of dim-vertex
\* faces of the union of the triangulated unit cubes of all voxels, each
\* face yielded exactly once.
CompleteFullShape ==
    (Exhausted /\ RightRank /\ AxesAtLeast(2) /\ dim > 1)
        => ExactlyTheTrueFaces

CompleteFullShapeWitness ==
    /\ Exhausted
    /\ caller = "consumer"
    /\ shape = <<3, 3, 3>>
    /\ dim = 3
    /\ Len(out) = 120

\* C4: no two simplices of one stream are the same vertex set, whatever
\* pass they come from: as many vertex sets as yielded elements.
GloballyUnique == dim > 1 => Cardinality(OutSets) = Len(out)

GloballyUniqueWitness ==
    /\ Exhausted
    /\ caller = "consumer"
    /\ shape = <<3, 3, 3>>
    /\ dim = 2
    /\ Len(out) = 98

\* C5: for dim == 1 no pass over a template runs, and the exhausted stream
\* has prod(shape) elements, the bare ints 0..prod(shape)-1 once each.
VerticesOnce ==
    (RightRank /\ dim = 1) =>
        /\ pc \notin {"interior", "slab", "edge"}
        /\ Exhausted =>
              /\ Len(out) = Prod(shape)
              /\ Range(out) = {PyInt(i) : i \in 0..(Prod(shape) - 1)}

VerticesOnceWitness ==
    /\ Exhausted
    /\ caller = "consumer"
    /\ shape = <<3, 3, 3>>
    /\ dim = 1
    /\ Len(out) = 27

\* C6: for a shape of positive axis lengths, every element yielded for
\* dim > 1 is a list of dim strictly increasing indices in
\* [0, prod(shape)), and every element yielded for dim == 1 is a bare int.
WellFormedElements ==
    (RightRank /\ AxesAtLeast(1)) =>
        \A n \in DOMAIN out :
            IF dim > 1
            THEN /\ out[n].t = "list"
                 /\ Len(out[n].v) = dim
                 /\ \A m \in 1..(dim - 1) : out[n].v[m] < out[n].v[m + 1]
                 /\ \A m \in 1..dim :
                       0 <= out[n].v[m] /\ out[n].v[m] < Prod(shape)
            ELSE out[n].t = "int"

WellFormedElementsWitness ==
    /\ Exhausted
    /\ caller = "consumer"
    /\ shape = <<2, 3, 3>>
    /\ dim = 4
    /\ Len(out) = 24

\* C7: for shape (2,2,2) and dim 4 only the interior pass at voxel (0,0,0)
\* yields, and the exhausted stream is 6 tetrahedra whose vertex sets are
\* the 6 maximal simplices of the default template of complex.
SingleVoxelTetrahedra ==
    (fn = "decompose3d" /\ shape = <<2, 2, 2>> /\ dim = 4) =>
        /\ pc \in {"start", "interior", "done"}
        /\ pc = "interior" => pos = <<0, 0, 0>> /\ Index(pos, Strides(shape)) = 0
        /\ Exhausted =>
              /\ Len(out) = 6
              /\ OutSets = {Range(DefaultMaximal[m]) : m \in DOMAIN DefaultMaximal}

SingleVoxelTetrahedraWitness ==
    /\ Exhausted
    /\ caller = "consumer"
    /\ shape = <<2, 2, 2>>
    /\ dim = 4
    /\ Len(out) = 6

\* C8: a dim outside 1..4 (decompose3d) or 1..3 (decompose2d) yields
\* nothing and raises nothing, for every shape with the right axis count.
UnsupportedDim ==
    IF fn = "decompose3d" THEN dim \notin 1..4 ELSE dim \notin 1..3

UnsupportedDimEmpty ==
    (RightRank /\ UnsupportedDim) =>
        /\ out = <<>>
        /\ pc \in {"start", "done"}
        /\ cpc # "raised"

UnsupportedDimEmptyWitness ==
    /\ Exhausted
    /\ cpc = "exhausted"
    /\ fn = "decompose2d"
    /\ shape = <<4, 4>>
    /\ dim = 4
    /\ out = <<>>

\* C9: with a shape whose axis count is wrong for the generator function,
\* nothing is ever yielded and the first pull raises to the caller, for
\* every dim.
MismatchRaises ==
    ~RightRank =>
        /\ out = <<>>
        /\ pc \in {"start", "raised"}
        /\ pc = "raised" <=> cpc = "raised"
        /\ cpc \in {"running", "raised"}

MismatchRaisesWitness ==
    /\ cpc = "raised"
    /\ caller = "consumer"
    /\ fn = "decompose3d"
    /\ Len(shape) = 2
    /\ dim = 1

\* the axes of the shape that pass s of the generator function loops over
StratumAxes(f, s) ==
    IF f = "decompose3d"
    THEN << <<1, 2, 3>>, <<1, 2>>, <<1, 3>>, <<2, 3>>, <<1>>, <<2>>, <<3>> >>[s]
    ELSE << <<1, 2>>, <<1>>, <<2>> >>[s]

\* the flattened indices of the grid points; an axis of length <= 1 has
\* the single coordinate 0
GridIndices(sh) ==
    {Index(x, Strides(sh)) :
        x \in {y \in [DOMAIN sh -> 0..MaxAxis + MaxAxis2] :
                 \A a \in DOMAIN sh : y[a] = 0 \/ y[a] < sh[a]}}

\* C10: with a shape that has an axis of length <= 1 the generator never
\* raises, no pass that loops along such an axis has a position, and every
\* vertex of a yielded simplex is a grid point with coordinate 0 on it.
DegenerateGraceful ==
    (RightRank /\ ~AxesAtLeast(2)) =>
        /\ pc # "raised" /\ cpc # "raised"
        /\ pc \in {"interior", "slab", "edge"} =>
              \A n \in DOMAIN StratumAxes(fn, stratum) :
                  shape[StratumAxes(fn, stratum)[n]] >= 2
        /\ dim > 1 =>
              \A n \in DOMAIN out : Range(out[n].v) \subseteq GridIndices(shape)

DegenerateGracefulWitness ==
    /\ Exhausted
    /\ caller = "consumer"
    /\ shape = <<3, 1, 3>>
    /\ dim = 3
    /\ Len(out) = 8

(***************************************************************************)
(* Direct calls of complex, join_complexes, cube_with_strides_center and   *)
(* of the template computation of one pass.                                *)
(***************************************************************************)
\* largest vertex index of the simplices handed to complex
MaxVertex == 2
\* largest number of maximal simplices, and of complexes handed to
\* join_complexes
MaxSimplices == 2
\* largest stride handed to cube_with_strides_center
MaxStride == 3

\* simplices: tuples of distinct vertices in any order
Simplices ==
    UNION {{s \in [1..n -> 0..MaxVertex] :
              \A i, j \in 1..n : i # j => s[i] # s[j]} : n \in 1..(MaxVertex + 1)}

MaximalLists ==
    {DefaultMaximal} \cup UNION {[1..n -> Simplices] : n \in 1..MaxSimplices}

ComplexPool == {Complex(<<s>>) : s \in Simplices} \cup {Complex(DefaultMaximal)}

Centers == UNION {[1..n -> {0 - 1, 0}] : n \in 0..3}

StrideVectors == UNION {[1..n -> 1..MaxStride] : n \in 1..3}

ComplexCalls == {[op |-> "complex", maximal |-> m] : m \in MaximalLists}

JoinCalls ==
    {[op |-> "join_complexes", complexes |-> cs] :
        cs \in UNION {[1..n -> ComplexPool] : n \in 1..MaxSimplices}}

CubeCalls ==
    {[op |-> "cube_with_strides_center", center |-> c, strides |-> st] :
        c \in Centers, st \in StrideVectors}

\* the passes, as UniqueOf takes them: the function, the kind of pass and
\* the strides of the pass
UniqueCalls ==
    {[op |-> "unique", fn |-> "decompose3d", kind |-> "interior", st |-> st] :
        st \in [1..3 -> 1..MaxStride]}
    \cup {[op |-> "unique", fn |-> "decompose3d", kind |-> "slab", st |-> st] :
        st \in [1..2 -> 1..MaxStride]}
    \cup {[op |-> "unique", fn |-> "decompose3d", kind |-> "edge", st |-> st] :
        st \in [1..1 -> 1..MaxStride]}
    \cup {[op |-> "unique", fn |-> "decompose2d", kind |-> "interior", st |-> st] :
        st \in [1..2 -> 1..MaxStride]}
    \cup {[op |-> "unique", fn |-> "decompose2d", kind |-> "edge", st |-> st] :
        st \in [1..1 -> 1..MaxStride]}

LibInit ==
    /\ lpc = "called"
    /\ call \in ComplexCalls \cup JoinCalls \cup CubeCalls \cup UniqueCalls
    /\ ret = <<>>
    /\ IdleDecomp /\ IdlePrev /\ IdleOther /\ IdlePar /\ IdleSlice /\ IdleGlm

\* complex copies each simplex before it sorts it: maximal stays as it was
CallComplex ==
    /\ lpc = "called"
    /\ call.op = "complex"
    /\ ret' = Complex(call.maximal)
    /\ lpc' = "returned"
    /\ UNCHANGED <<call, decompVars, prev, other, parVars, sliceVars, glmVars>>

\* join_complexes builds new sets with set.union: its arguments stay
CallJoin ==
    /\ lpc = "called"
    /\ call.op = "join_complexes"
    /\ ret' = JoinComplexes(call.complexes)
    /\ lpc' = "returned"
    /\ UNCHANGED <<call, decompVars, prev, other, parVars, sliceVars, glmVars>>

CallCube ==
    /\ lpc = "called"
    /\ call.op = "cube_with_strides_center"
    /\ IF CubeRaises(call.center, call.strides)
       THEN lpc' = "raised" /\ ret' = <<>>
       ELSE lpc' = "returned"
            /\ ret' = CubeWithStridesCenter(call.center, call.strides)
    /\ UNCHANGED <<call, decompVars, prev, other, parVars, sliceVars, glmVars>>

CallUnique ==
    /\ lpc = "called"
    /\ call.op = "unique"
    /\ ret' = UniqueOf(call.fn, [kind |-> call.kind, st |-> call.st])
    /\ lpc' = "returned"
    /\ UNCHANGED <<call, decompVars, prev, other, parVars, sliceVars, glmVars>>

LibNext == CallComplex \/ CallJoin \/ CallCube \/ CallUnique

LibSpec == LibInit /\ [][LibNext]_vars

\* the vertices of a set in ascending order
RECURSIVE AscTuple(_)
AscTuple(S) ==
    IF S = {} THEN <<>>
    ELSE LET m == CHOOSE x \in S : \A y \in S : x <= y
         IN <<m>> \o AscTuple(S \ {m})

\* f without its n-th vertex
DropVertex(f, n) == [m \in 1..(Len(f) - 1) |-> IF m < n THEN f[m] ELSE f[m + 1]]

ComplexReturned == lpc = "returned" /\ call.op = "complex"

\* C11: in the result of complex, for every k >= 2, a face of faces[k]
\* with any one vertex left out is in faces[k-1], as a bare index when
\* k - 1 = 1.
FacesClosed ==
    ComplexReturned =>
        \A k \in DOMAIN ret : k >= 2 =>
            \A f \in ret[k] : \A n \in 1..k :
                IF k = 2 THEN DropVertex(f, n)[1] \in ret[1]
                ELSE DropVertex(f, n) \in ret[k - 1]

FacesClosedWitness ==
    /\ ComplexReturned
    /\ call.maximal = DefaultMaximal
    /\ Cardinality(ret[4]) = 6
    /\ Cardinality(ret[3]) = 18
    /\ Cardinality(ret[2]) = 19
    /\ Cardinality(ret[1]) = 8

\* the k-vertex subsets of the maximal simplices
VertexSubsets(maximal, k) ==
    UNION {{T \in SUBSET Range(maximal[n]) : Cardinality(T) = k} :
             n \in DOMAIN maximal}

\* C12: the result of complex has the keys 1..n, n the largest size of a
\* maximal simplex; faces[k] is the set of the k-vertex subsets of the
\* maximal simplices, each as its ascending tuple, and faces[1] the set of
\* the vertices themselves.
FacesAreSubsets ==
    ComplexReturned =>
        /\ DOMAIN ret =
             1..SetMax({Cardinality(Range(call.maximal[n])) :
                          n \in DOMAIN call.maximal})
        /\ \A k \in DOMAIN ret :
              IF k = 1 THEN ret[1] = UNION VertexSubsets(call.maximal, 1)
              ELSE ret[k] = {AscTuple(T) : T \in VertexSubsets(call.maximal, k)}

FacesAreSubsetsWitness ==
    /\ ComplexReturned
    /\ call.maximal = << <<2, 0>>, <<1, 2, 0>> >>
    /\ ret = << {0, 1, 2}, {<<0, 1>>, <<0, 2>>, <<1, 2>>}, {<<0, 1, 2>>} >>

JoinReturned == lpc = "returned" /\ call.op = "join_complexes"

\* C13: join_complexes of one complex returns a complex equal to it; of
\* several complexes, a complex whose set at each dimension is the union
\* of the arguments' sets at that dimension, an argument without the
\* dimension adding nothing; and the call leaves its arguments as they
\* were.
JoinIsUnion ==
    /\ [](JoinReturned =>
            /\ Len(call.complexes) = 1 => ret = call.complexes[1]
            /\ DOMAIN ret =
                 1..SetMax({Len(call.complexes[n]) : n \in DOMAIN call.complexes})
            /\ \A k \in DOMAIN ret :
                  /\ \A x \in ret[k] : \E n \in DOMAIN call.complexes :
                        k \in DOMAIN call.complexes[n] /\ x \in call.complexes[n][k]
                  /\ \A n \in DOMAIN call.complexes :
                        k \in DOMAIN call.complexes[n]
                           => call.complexes[n][k] \subseteq ret[k])
    /\ [][CallJoin => call' = call]_vars

JoinIsUnionWitness ==
    /\ JoinReturned
    /\ call.complexes = << << {0, 1}, {<<0, 1>>} >>,
                           << {1, 2, 0}, {<<0, 1>>, <<0, 2>>, <<1, 2>>},
                              {<<0, 1, 2>>} >> >>
    /\ ret = call.complexes[2]

CubeReturned == lpc = "returned" /\ call.op = "cube_with_strides_center"

\* corner number n (from 0) of the cube at center: bit i of n tells whether
\* the corner is one step further along axis i, axis 0 first
RECURSIVE CornerIndex(_, _, _, _)
CornerIndex(center, strides, n, i) ==
    IF i > Len(center) THEN 0
    ELSE (center[i] + (n % 2)) * strides[i]
           + CornerIndex(center, strides, n \div 2, i + 1)

CornerIndices(center, strides) ==
    [n \in 1..Prod([i \in DOMAIN center |-> 2]) |->
        CornerIndex(center, strides, n - 1, 1)]

\* the triangulated cube on these corners
CornerCube(center, strides) ==
    LET corners == CornerIndices(center, strides)
        tmpl == CubeMaximal(Len(center))
    IN Complex([m \in DOMAIN tmpl |->
                  [p \in DOMAIN tmpl[m] |-> corners[tmpl[m][p] + 1]]])

\* C14: for centers of 1, 2 or 3 components in {-1, 0} and positive strides,
\* cube_with_strides_center returns the complex of its template with
\* vertex number n replaced by the corner index
\* Sum_i (center[i] + bit_i) * strides[i], axis 0 varying fastest.
CubeCornersScaled ==
    CubeReturned => ret = CornerCube(call.center, call.strides)

UniqueReturned == lpc = "returned" /\ call.op = "unique"

\* the cubes one step back along a non-empty subset of n axes
StepsBack(n) == [1..n -> {0 - 1, 0}] \ {[i \in 1..n |-> 0]}

\* C18: for every pass and every positive stride vector, no face of the
\* template of the pass, at any dimension k (vertices included), is a face
\* of the triangulated cube anchored one step back along a non-empty subset
\* of the axes of the pass.
UniqueOnlyNew ==
    UniqueReturned =>
        \A off \in StepsBack(Len(call.st)) : \A k \in DOMAIN ret :
            ret[k] \cap CornerCube(off, call.st)[k] = {}

(***************************************************************************)
(* slice_generator(data, axis), one step per pull.  Only the index tuple   *)
(* of each yielded pair is kept: the data slice is data[index].            *)
(***************************************************************************)
\* longest axis of the data handed to slice_generator
MaxSliceLen == 2
\* largest number of axes of the data
MaxSliceRank == 3

SliceShapes == UNION {[1..r -> 1..MaxSliceLen] : r \in 1..MaxSliceRank}

\* lists of distinct axes of data of rank r, numbered from 0
AxisLists(r) ==
    UNION {{l \in [1..n -> 0..(r - 1)] :
              \A i, j \in 1..n : i # j => l[i] # l[j]} : n \in 1..r}

SliceAxes(r) == {PyInt(a) : a \in 0..(r - 1)} \cup {PyList(l) : l \in AxisLists(r)}

\* slice(None, None, None)
SliceAll == [t |-> "slice", v |-> <<>>]

\* slice(0, s)
SliceTo(s) == [t |-> "slice", v |-> <<0, s>>]

\* (slice(None,None,None),)*axis + (j,)
IntIndex(axis, j) ==
    [m \in 1..(axis + 1) |-> IF m <= axis THEN SliceAll ELSE PyInt(j)]

AxisLens(sh, axis) == [i \in DOMAIN axis |-> sh[axis[i] + 1]]

\* np.cumprod(axis_lens)
Mods(lens) == [i \in DOMAIN lens |-> Prod(SubSeq(lens, 1, i))]

\* [1] + list(mods[:-1])
Divs(lens) == [i \in DOMAIN lens |-> IF i = 1 THEN 1 ELSE Mods(lens)[i - 1]]

\* int(n / div % mod): the quotient is exact or has a fraction that int drops
AxisIndex(lens, n, i) == (n \div Divs(lens)[i]) % Mods(lens)[i]

\* slices after the loop over zip(axis, divs, mods)
SlicesAt(sh, axis, n) ==
    [m \in DOMAIN sh |->
        IF \E i \in DOMAIN axis : axis[i] + 1 = m
        THEN LET i == CHOOSE i \in DOMAIN axis : axis[i] + 1 = m
             IN PyInt(AxisIndex(AxisLens(sh, axis), n, i))
        ELSE SliceTo(sh[m])]

\* data[slices] raises IndexError: an integer index is out of bounds
OutOfBounds(sh, slices) ==
    \E m \in DOMAIN sh : slices[m].t = "int" /\ slices[m].v[1] >= sh[m]

SliceInit ==
    /\ spc = "start"
    /\ sshape \in SliceShapes
    /\ saxis \in SliceAxes(Len(sshape))
    /\ sn = 0
    /\ sout = <<>>
    /\ IdleDecomp /\ IdlePrev /\ IdleOther /\ IdlePar /\ IdleLib /\ IdleGlm

\* type(axis) is type(1): for j in range(data.shape[axis])
SliceNextInt ==
    /\ spc \in {"start", "running"}
    /\ saxis.t = "int"
    /\ IF sn < sshape[saxis.v[1] + 1]
       THEN /\ sout' = Append(sout, IntIndex(saxis.v[1], sn))
            /\ sn' = sn + 1
            /\ spc' = "running"
       ELSE /\ spc' = "done"
            /\ UNCHANGED <<sn, sout>>
    /\ UNCHANGED <<sshape, saxis, decompVars, prev, other, parVars, libVars, glmVars>>

\* for n in range(nmax)
SliceNextList ==
    /\ spc \in {"start", "running"}
    /\ saxis.t = "list"
    /\ IF sn < Prod(AxisLens(sshape, saxis.v))
       THEN LET slices == SlicesAt(sshape, saxis.v, sn)
            IN IF OutOfBounds(sshape, slices)
               THEN /\ spc' = "raised"
                    /\ UNCHANGED <<sn, sout>>
               ELSE /\ sout' = Append(sout, slices)
                    /\ sn' = sn + 1
                    /\ spc' = "running"
       ELSE /\ spc' = "done"
            /\ UNCHANGED <<sn, sout>>
    /\ UNCHANGED <<sshape, saxis, decompVars, prev, other, parVars, libVars, glmVars>>

SliceNext == SliceNextInt \/ SliceNextList

SliceSpec == SliceInit /\ [][SliceNext]_vars

\* item number n (from 0) of an iteration over every combination of indices
\* along the listed axes, the first listed axis changing fastest
RECURSIVE CombinationAt(_, _, _, _)
CombinationAt(sh, axis, n, i) ==
    IF i > Len(axis) THEN [m \in DOMAIN sh |-> SliceTo(sh[m])]
    ELSE [CombinationAt(sh, axis, n \div sh[axis[i] + 1], i + 1)
            EXCEPT ![axis[i] + 1] = PyInt(n % sh[axis[i] + 1])]

\* C17: with a list of distinct axes slice_generator yields one item per
\* combination of in-bounds indices along those axes, prod(shape[a]) items
\* in all, each combination once, the first listed axis changing fastest,
\* for any number of listed axes; with an integer axis it yields the
\* shape[axis] slices in increasing order.
SlicesEveryCombination ==
    /\ spc # "raised"
    /\ spc = "done" =>
          IF saxis.t = "int"
          THEN /\ Len(sout) = sshape[saxis.v[1] + 1]
               /\ \A n \in DOMAIN sout : sout[n] = IntIndex(saxis.v[1], n - 1)
          ELSE /\ Len(sout) = Prod(AxisLens(sshape, saxis.v))
               /\ \A n \in DOMAIN sout :
                     sout[n] = CombinationAt(sshape, saxis.v, n - 1, 1)

\* the number of steps along an axis of n points
Gap(n) == IF n - 1 > 0 THEN n - 1 ELSE 0

\* the closed-form number of dm-vertex simplices of the grid
ClosedFormCount(f, sh, dm) ==
    IF f = "decompose3d" THEN
        LET A == Gap(sh[1])
            B == Gap(sh[2])
            C == Gap(sh[3])
        IN IF dm = 4 THEN 6 * A * B * C
           ELSE IF dm = 3 THEN 12 * A * B * C + 2 * (A * B + A * C + B * C)
           ELSE 7 * A * B * C + 3 * (A * B + A * C + B * C) + (A + B + C)
    ELSE
        LET A == Gap(sh[1])
            B == Gap(sh[2])
        IN IF dm = 3 THEN 2 * A * B ELSE 3 * A * B + A + B

\* the largest dim the closed forms are given for
TopDim == IF fn = "decompose3d" THEN 4 ELSE 3

\* C20: an exhausted stream of decompose3d((a,b,c), dim), dim in 2..4, or
\* of decompose2d((a,b), dim), dim in 2..3, has the closed-form number of
\* elements in A = max(a-1,0), B, C; and a pass only yields for dims up to
\* the number of vertices of its largest simplex (axes of the pass + 1).
CountsClosedForm ==
    /\ (Exhausted /\ RightRank /\ dim \in 2..TopDim)
          => Len(out) = ClosedFormCount(fn, shape, dim)
    /\ pc \in {"interior", "slab", "edge"}
          => dim <= Len(Strata(fn, shape, Strides(shape))[stratum].st) + 1

CountsClosedFormWitness ==
    /\ Exhausted
    /\ caller = "consumer"
    /\ shape = <<3, 2, 3>>
    /\ dim = 2
    /\ Len(out) = 57

(***************************************************************************)
(* The whole stream of one generator object, pulled until it stops.        *)
(***************************************************************************)
\* the frame of a generator object no line of whose body has run
StartFrame == [pc |-> "start", stratum |-> 0, pos |-> <<>>, d |-> {}, rest |-> <<>>]

\* the frame part of what Resume returns
FrameOf(r) ==
    [pc |-> r.pc, stratum |-> r.stratum, pos |-> r.pos, d |-> r.d, rest |-> r.rest]

RECURSIVE StreamFrom(_, _, _, _, _)
StreamFrom(f, sh, dm, ord, frame) ==
    LET r == Resume(f, sh, dm, ord, frame)
    IN IF r.res = "yield"
       THEN <<r.val>> \o StreamFrom(f, sh, dm, ord, FrameOf(r))
       ELSE <<>>

\* list(decompose3d(shape, dim)), resp. decompose2d
FullStream(f, sh, dm, ord) == StreamFrom(f, sh, dm, ord, StartFrame)

(***************************************************************************)
(* test_EC3 and test_EC2 called, and called once more after they returned. *)
(***************************************************************************)
ECInit == Init /\ caller # "consumer"

\* the tuple the function returns
ECResult == IF caller = "test_EC3" THEN <<ts, fs, es, vs, ec>> ELSE <<fs, es, vs, ec>>

\* ECAgain with the counters of the first call still in place
ECAgainKeepsCounters ==
    /\ cpc = "returned"
    /\ prev = <<>>
    /\ prev' = ECResult
    /\ cpc' = "running"
    /\ loop' = 1
    /\ dim' = IF caller = "test_EC3" THEN 4 ELSE 3
    /\ FreshFrame
    /\ UNCHANGED <<ts, fs, es, vs, ec>>
    /\ UNCHANGED <<genArgs, other, parVars, libVars, sliceVars, glmVars>>

\* the caller keeps the returned tuple and calls the function again with
\* the same shape: the locals of the new call start at 0
ECAgain ==
    /\ cpc = "returned"
    /\ prev = <<>>
    /\ prev' = ECResult
    /\ cpc' = "running"
    /\ loop' = 1
    /\ dim' = IF caller = "test_EC3" THEN 4 ELSE 3
    /\ FreshFrame
    /\ ts' = 0 /\ fs' = 0 /\ es' = 0 /\ vs' = 0 /\ ec' = 0
    /\ UNCHANGED <<genArgs, other, parVars, libVars, sliceVars, glmVars>>

ECNext == EC3Next \/ EC2Next \/ ECAgain

ECSpec == ECInit /\ [][ECNext]_vars

\* len(list(...)) of the stream for dim dm
StreamLen(dm) == Len(FullStream(fn, shape, dm, order))

\* C19: test_EC3 returns (ts, fs, es, vs, ec) with ts, fs, es, vs the
\* numbers of elements of decompose3d(shape, dim) for dim = 4, 3, 2, 1 and
\* ec = vs - es + fs - ts; test_EC2 returns (fs, es, vs, ec) with the
\* decompose2d counts for dim = 3, 2, 1 and ec = vs - es + fs; a second
\* call with the same shape returns what the first call returned.
ECCountsAndPure ==
    cpc = "returned" =>
        /\ caller = "test_EC3" =>
              /\ ts = StreamLen(4) /\ fs = StreamLen(3)
              /\ es = StreamLen(2) /\ vs = StreamLen(1)
              /\ ec = vs - es + fs - ts
        /\ caller = "test_EC2" =>
              /\ fs = StreamLen(3) /\ es = StreamLen(2) /\ vs = StreamLen(1)
              /\ ts = 0
              /\ ec = vs - es + fs
        /\ prev # <<>> => ECResult = prev

ECCountsAndPureWitness ==
    /\ cpc = "returned"
    /\ caller = "test_EC3"
    /\ shape = <<2, 3, 2>>
    /\ prev = <<12, 34, 33, 12, 1>>
    /\ ECResult = prev

(***************************************************************************)
(* Two generator objects over the same (shape, dim): the consumer's own    *)
(* stream, and another one that is pulled a few times and then dropped,    *)
(* at any point of the consumer's stream.  Each generator object has its   *)
(* own frame; the consumer of the other stream owns the lists it was       *)
(* handed and may overwrite them.                                          *)
(***************************************************************************)
\* number of points of the long axes of the grids of two streams
MaxCancelAxis == 2
\* largest number of elements pulled from the stream that is dropped
MaxOtherPulls == 1

\* every axis has one point or MaxCancelAxis points
CancelShapes(f) ==
    IF f = "decompose3d" THEN [1..3 -> {1, MaxCancelAxis}]
    ELSE [1..2 -> {1, MaxCancelAxis}]

CancelInit ==
    /\ caller = "consumer"
    /\ cpc = "running"
    /\ fn \in {"decompose3d", "decompose2d"}
    /\ shape \in CancelShapes(fn)
    /\ dim \in 1..(Len(shape) + 1)
    /\ order \in Orders
    /\ pc = "start"
    /\ stratum = 0
    /\ pos = <<>>
    /\ d = {}
    /\ rest = <<>>
    /\ out = <<>>
    /\ loop = 0
    /\ ts = 0 /\ fs = 0 /\ es = 0 /\ vs = 0 /\ ec = 0
    /\ other = [state |-> "live", frame |-> StartFrame, n |-> 0, last |-> PyInt(0)]
    /\ IdlePrev /\ IdlePar /\ IdleLib /\ IdleSlice /\ IdleGlm

\* OtherPull running on the frame of the consumer's generator
OtherPullSharedFrame ==
    /\ other.state = "live"
    /\ other.n < MaxOtherPulls
    /\ LET r == Resume(fn, shape, dim, order, Frame)
       IN /\ other' = IF r.res = "yield"
                      THEN [other EXCEPT !.n = other.n + 1, !.last = r.val]
                      ELSE [other EXCEPT !.state = "finished"]
          /\ pc' = r.pc /\ stratum' = r.stratum /\ pos' = r.pos
          /\ d' = r.d /\ rest' = r.rest
    /\ UNCHANGED <<caller, cpc, fn, shape, dim, order, out, counters>>
    /\ UNCHANGED <<prev, parVars, libVars, sliceVars, glmVars>>

\* next() on the other generator object
OtherPull ==
    /\ other.state = "live"
    /\ other.n < MaxOtherPulls
    /\ LET r == Resume(fn, shape, dim, order, other.frame)
       IN other' = IF r.res = "yield"
                   THEN [other EXCEPT !.frame = FrameOf(r), !.n = other.n + 1,
                                      !.last = r.val]
                   ELSE [other EXCEPT !.frame = FrameOf(r), !.state = "finished"]
    /\ UNCHANGED <<decompVars, prev, parVars, libVars, sliceVars, glmVars>>

\* the holder of the last yielded list empties it in place
OtherScribble ==
    /\ other.state \in {"live", "abandoned"}
    /\ other.last.t = "list"
    /\ other.last.v # <<>>
    /\ other' = [other EXCEPT !.last = PyList(<<>>)]
    /\ UNCHANGED <<decompVars, prev, parVars, libVars, sliceVars, glmVars>>

\* the other stream is dropped: nobody pulls from it again
OtherAbandon ==
    /\ other.state = "live"
    /\ other' = [other EXCEPT !.state = "abandoned"]
    /\ UNCHANGED <<decompVars, prev, parVars, libVars, sliceVars, glmVars>>

CancelNext == ConsumerNext \/ OtherPull \/ OtherScribble \/ OtherAbandon

CancelSpec == CancelInit /\ [][CancelNext]_vars

Workers == {"w1", "w2"}

\* largest number of positions of all passes together
MaxWork == 5
\* longest axis of the grids the workers share
MaxParAxis == 3

\* the passes that yield for dm: `if dim in unique and dim > 1`
YieldingStrata(f, sh, dm) ==
    LET S == Strata(f, sh, Strides(sh))
    IN {s \in DOMAIN S : dm > 1 /\ dm \in DOMAIN UniqueOf(f, S[s])}

\* the positions the loops of the passes run over
WorkItems(f, sh, dm) ==
    LET S == Strata(f, sh, Strides(sh))
    IN UNION {{[s |-> s, p |-> p] : p \in Voxels(S[s].sh)} :
                 s \in YieldingStrata(f, sh, dm)}

\* d = unique[dim] of every pass that yields
Templates(f, sh, dm) ==
    LET S == Strata(f, sh, Strides(sh))
    IN [s \in YieldingStrata(f, sh, dm) |-> UniqueOf(f, S[s])[dm]]

\* Emitted without the index of the position
EmittedUntranslated(tmpl, st, p) == {Translate(l, 0) : l \in tmpl}

\* for l in d: yield [index+ii for ii in l], at one position
Emitted(tmpl, st, p) == {Translate(l, Index(p, st)) : l \in tmpl}

Idle == [s |-> 0, p |-> <<>>]

ParInit ==
    /\ caller = "workers"
    /\ cpc = "running"
    /\ fn \in {"decompose3d", "decompose2d"}
    /\ shape \in [1..(IF fn = "decompose3d" THEN 3 ELSE 2) -> 1..MaxParAxis]
    /\ dim \in 2..(Len(shape) + 1)
    /\ Cardinality(WorkItems(fn, shape, dim)) <= MaxWork
    /\ order \in Orders
    /\ pc = "none"
    /\ stratum = 0
    /\ pos = <<>>
    /\ d = {}
    /\ rest = <<>>
    /\ out = <<>>
    /\ loop = 0
    /\ ts = 0 /\ fs = 0 /\ es = 0 /\ vs = 0 /\ ec = 0
    /\ templates = Templates(fn, shape, dim)
    /\ todo = WorkItems(fn, shape, dim)
    /\ held = [w \in Workers |-> Idle]
    /\ bag = <<>>
    /\ IdlePrev /\ IdleOther /\ IdleLib /\ IdleSlice /\ IdleGlm

\* a worker takes a position nobody took
Take ==
    \E w \in Workers : \E item \in todo :
        /\ held[w] = Idle
        /\ held' = [held EXCEPT ![w] = item]
        /\ todo' = todo \ {item}
        /\ UNCHANGED <<templates, bag, decompVars, prev, other, libVars, sliceVars, glmVars>>

\* a worker hands in the simplices of its position
Emit ==
    \E w \in Workers :
        /\ held[w] # Idle
        /\ \E new \in {Emitted(templates[held[w].s],
                                 Strata(fn, shape, Strides(shape))[held[w].s].st,
                                 held[w].p)} :
              bag' = [x \in DOMAIN bag \cup new |->
                        (IF x \in DOMAIN bag THEN bag[x] ELSE 0)
                          + (IF x \in new THEN 1 ELSE 0)]
        /\ held' = [held EXCEPT ![w] = Idle]
        /\ UNCHANGED <<templates, todo, decompVars, prev, other, libVars, sliceVars, glmVars>>

ParNext == Take \/ Emit

ParSpec == ParInit /\ [][ParNext]_vars

\* how often each element occurs in a sequence
CountsOf(seq) ==
    [x \in Range(seq) |-> Cardinality({n \in DOMAIN seq : seq[n] = x})]

AllHandedIn == todo = {} /\ \A w \in DOMAIN held : held[w] = Idle

\* C15: the templates stay as they were computed; when the workers have processed every position of the passes, in
\* whatever order and split among them in whatever way, every simplex of
\* the sequential stream was emitted as often as the stream yields it,
\* nothing else was emitted, and nothing twice.
OrderIndependent ==
    /\ \A x \in DOMAIN bag : bag[x] = 1
    /\ AllHandedIn => templates = Templates(fn, shape, dim)
    /\ AllHandedIn =>
          \A stream \in {FullStream(fn, shape, dim, order)} :
              /\ DOMAIN bag = Range(stream)
              /\ \A x \in DOMAIN bag : bag[x] = CountsOf(stream)[x]

OrderIndependentWitness ==
    /\ AllHandedIn
    /\ caller = "workers"
    /\ shape = <<3, 2, 1>>
    /\ dim = 2
    /\ Cardinality(DOMAIN bag) = 9

(***************************************************************************)
(* A consumer that pulls until StopIteration and then calls next() once    *)
(* more on the exhausted generator.                                        *)
(***************************************************************************)
\* number of points of the longest axes of the grids
MaxOrderAxis == 3

OrderInit ==
    /\ caller = "consumer"
    /\ cpc = "running"
    /\ fn \in {"decompose3d", "decompose2d"}
    /\ shape \in [1..(IF fn = "decompose3d" THEN 3 ELSE 2) -> {1, 2, MaxOrderAxis}]
    /\ dim \in 2..(Len(shape) + 1)
    /\ order \in Orders
    /\ pc = "start"
    /\ stratum = 0
    /\ pos = <<>>
    /\ d = {}
    /\ rest = <<>>
    /\ out = <<>>
    /\ loop = 0
    /\ ts = 0 /\ fs = 0 /\ es = 0 /\ vs = 0 /\ ec = 0
    /\ IdlePrev /\ IdleOther /\ IdlePar /\ IdleLib /\ IdleSlice /\ IdleGlm

\* next() on a generator that has returned
PullAgain ==
    /\ caller = "consumer"
    /\ cpc = "exhausted"
    /\ LET r == Resume(fn, shape, dim, order, Frame)
       IN /\ SetFrame(r)
          /\ cpc' = IF r.res = "yield" THEN "running"
                    ELSE IF r.res = "stop" THEN "stopped again" ELSE "raised"
    /\ UNCHANGED <<genArgs, dim, counters>>
    /\ UNCHANGED <<prev, other, parVars, libVars, sliceVars, glmVars>>

OrderNext == ConsumerNext \/ PullAgain

OrderSpec == OrderInit /\ [][OrderNext]_vars

\* position number n (from 0) of nested loops over range(ext[1]),
\* range(ext[2]), ...: row-major, the last axis changing fastest
RowMajorPos(ext, n) ==
    [i \in DOMAIN ext |->
        (n \div Prod(SubSeq(ext, i + 1, Len(ext)))) % ext[i]]

\* what pass s yields, position by position: at each position the set of
\* the faces of the template moved to the position
BlocksOf(f, sh, dm, s) ==
    LET axes == StratumAxes(f, s)
        ext == [i \in DOMAIN axes |-> sh[axes[i]] - 1]
        st == [i \in DOMAIN axes |-> Strides(sh)[axes[i]]]
        kind == IF Len(axes) = Len(sh) THEN "interior"
                ELSE IF Len(axes) = 2 THEN "slab" ELSE "edge"
    IN IF dm > 1 /\ dm <= Len(axes) + 1 /\ \A i \in DOMAIN ext : ext[i] > 0
       THEN [n \in 1..Prod(ext) |->
               {Translate(l, Index(RowMajorPos(ext, n - 1), st)) :
                  l \in UniqueOf(f, [kind |-> kind, st |-> st])[dm]}]
       ELSE <<>>

\* interior first, then the slabs (axis0,axis1), (axis0,axis2),
\* (axis1,axis2), then the edges along axis 0, 1, 2
RECURSIVE BlocksFrom(_, _, _, _)
BlocksFrom(f, sh, dm, s) ==
    IF s > (IF f = "decompose3d" THEN 7 ELSE 3) THEN <<>>
    ELSE BlocksOf(f, sh, dm, s) \o BlocksFrom(f, sh, dm, s + 1)

\* s[1] + ... + s[n]
RECURSIVE SumTo(_, _)
SumTo(s, n) == IF n = 0 THEN 0 ELSE s[n] + SumTo(s, n - 1)

\* seq is the blocks one after the other, each block's elements once each
Follows(seq, blocks) ==
    \A size \in {[b \in DOMAIN blocks |-> Cardinality(blocks[b])]} :
        /\ Len(seq) = SumTo(size, Len(size))
        /\ \A b \in DOMAIN blocks :
              Range(SubSeq(seq, SumTo(size, b - 1) + 1, SumTo(size, b)))
                 = blocks[b]

\* C21: for dim > 1 the stream is, in this order, the interior pass, the
\* slabs (axis0,axis1), (axis0,axis2), (axis1,axis2) and the edges along
\* axis 0, 1, 2; within a pass the positions come in row-major order and
\* all template faces of a position come before the next position.  The
\* stream is finite: every pull of a running generator yields one more
\* element or stops it, and the number of elements never exceeds the
\* closed-form count of the grid.  A generator that has returned stays so
\* and yields nothing more.
EmissionOrder ==
    /\ [](cpc \in {"exhausted", "stopped again"} =>
             \A blocks \in {BlocksFrom(fn, shape, dim, 1)} : Follows(out, blocks))
    /\ [](Len(out) <= ClosedFormCount(fn, shape, dim))
    /\ [][cpc = "running" =>
            \/ cpc' = "running" /\ Len(out') = Len(out) + 1
            \/ cpc' = "exhausted" /\ pc' = "done" /\ out' = out]_vars
    /\ [][pc = "done" => (pc' = "done" /\ out' = out)]_vars

EmissionOrderWitness ==
    /\ cpc = "stopped again"
    /\ fn = "decompose3d"
    /\ shape = <<3, 3, 2>>
    /\ dim = 3
    /\ Len(out) = 64

(***************************************************************************)
(* GLM Model.fit: iter(self), the first weighted fit, then the loop        *)
(* `while self.cont(): self.results = next(self)`.  The deviance of each   *)
(* new results object is whatever the family and the regression make it:   *)
(* any finite value, inf or nan.                                           *)
(***************************************************************************)
\* Model.niter
niter == 10
\* tol = 1.0e-05 is 1 / TolInverse
TolInverse == 100000
\* largest finite deviance
MaxDeviance == 2
\* largest number of fit calls on one Model
MaxFits == 2

\* float values
Fin(n) == [k |-> "fin", v |-> n]

Inf == [k |-> "inf", v |-> 0]

NaN == [k |-> "nan", v |-> 0]

Deviances == {Fin(n) : n \in 0..MaxDeviance} \cup {Inf, NaN}

Abs(n) == IF n < 0 THEN 0 - n ELSE n

\* np.fabs((self.dev - curdev) / curdev) < tol.  A nan operand, inf - inf,
\* inf / inf and 0 / 0 give nan, and x / 0 and inf / x give inf: the
\* comparison is False for all of them.
WithinTol(d0, curdev) ==
    /\ d0.k = "fin"
    /\ curdev.k = "fin"
    /\ curdev.v # 0
    /\ Abs(d0.v - curdev.v) * TolInverse < Abs(curdev.v)

GlmInit ==
    /\ gpc = "constructed"
    /\ iter = 0
    /\ dev = <<>>
    /\ resdev = <<>>
    /\ steps = 0
    /\ fits = 0
    /\ IdleDecomp /\ IdlePrev /\ IdleOther /\ IdlePar /\ IdleLib /\ IdleSlice

\* fit, up to the first test of the while loop
GlmFit ==
    /\ gpc \in {"constructed", "returned"}
    /\ fits < MaxFits
    /\ fits' = fits + 1
    /\ iter' = 0
    /\ dev' = Inf
    /\ resdev' \in Deviances
    /\ steps' = 0
    /\ gpc' = "while"
    /\ UNCHANGED <<decompVars, prev, other, parVars, libVars, sliceVars>>

\* GlmCont giving up one iteration late
GlmContLate ==
    /\ gpc = "while"
    /\ IF iter > niter \/ WithinTol(dev, resdev)
       THEN gpc' = "returned" /\ dev' = dev
       ELSE gpc' = "body" /\ dev' = resdev
    /\ UNCHANGED <<iter, resdev, steps, fits>>
    /\ UNCHANGED <<decompVars, prev, other, parVars, libVars, sliceVars>>

\* self.cont() as the test of the while loop
GlmCont ==
    /\ gpc = "while"
    /\ IF iter >= niter \/ WithinTol(dev, resdev)
       THEN gpc' = "returned" /\ dev' = dev
       ELSE gpc' = "body" /\ dev' = resdev
    /\ UNCHANGED <<iter, resdev, steps, fits>>
    /\ UNCHANGED <<decompVars, prev, other, parVars, libVars, sliceVars>>

\* self.results = next(self)
GlmNextResults ==
    /\ gpc = "body"
    /\ resdev' \in Deviances
    /\ iter' = iter + 1
    /\ steps' = steps + 1
    /\ gpc' = "while"
    /\ UNCHANGED <<dev, fits>>
    /\ UNCHANGED <<decompVars, prev, other, parVars, libVars, sliceVars>>

GlmNext == GlmFit \/ GlmCont \/ GlmNextResults

\* fit runs its loop on: the test and the body are always taken in turn
GlmSpec ==
    GlmInit /\ [][GlmNext]_vars /\ WF_vars(GlmCont) /\ WF_vars(GlmNextResults)

\* C22: every fit call returns, after at most niter (10) __next__ calls;
\* fit starts with iter = 0 and dev = inf; every __next__ adds exactly 1 to
\* iter; cont() is False whenever iter >= niter, whatever the deviance; and
\* cont() stores the deviance in dev exactly when it is True and leaves dev
\* alone when it is False.
FitTerminates ==
    /\ [](steps <= niter)
    /\ [][GlmFit => (iter' = 0 /\ dev' = Inf)]_vars
    /\ [][GlmNextResults => iter' = iter + 1]_vars
    /\ [][(GlmCont /\ iter >= niter) => gpc' = "returned"]_vars
    /\ [][GlmCont => \/ gpc' = "body" /\ dev' = resdev
                     \/ gpc' = "returned" /\ dev' = dev]_vars
    /\ (gpc \in {"while", "body"}) ~> (gpc = "returned")

FitTerminatesWitness ==
    /\ gpc = "returned"
    /\ fits = 2
    /\ steps = niter
    /\ iter = niter
    /\ dev = NaN
    /\ resdev = Fin(1)

====
